---- MODULE Spec2Model ----
(***************************************************************************)
(* CypressConfigTransformer                                                *)
(* (packages/cypress/src/utils/config/change-config-transformer.ts).       *)
(*                                                                         *)
(* The transformer rewrites the object literal passed to the default       *)
(* exported call of a cypress.config.ts.  A source file is modelled by its *)
(* syntax tree (what createSourceFile gives for the text, and what the     *)
(* text printed by createPrinter().printFile parses to); JavaScript values *)
(* are tagged records, a Map is the sequence of its entries in insertion   *)
(* order.  One call of removeProperties or addOrUpdateProperties is one    *)
(* action: the calls are synchronous.                                      *)
(*                                                                         *)
(* Input bounds: property assignments with identifier names only, keys     *)
(* unique within an object literal, at most two arguments in a             *)
(* componentDevServer(...) call, string values below devServer, and no     *)
(* initializer without a .text member (array literal, arrow function):     *)
(* what the TypeScript printer does with the nodes the code builds from    *)
(* those is outside this repository.                                       *)
(***************************************************************************)
EXTENDS Naturals, Sequences, FiniteSets, TLC

VARIABLES
  configMetadataMap,   \* static configMetadataMap: the entries of the Map
  propertiesToRemove,  \* static propertiesToRemove (used through includes only: a set)
  sourceFile,          \* static sourceFile: the parsed existingConfigContent
  change,              \* the UpsertArgs | DeleteArgs of the last call
  result,              \* what the last call returned, or that it threw
  prior                \* history: the call before the last one left removal paths and threw

vars == <<configMetadataMap, propertiesToRemove, sourceFile, change, result, prior>>

RECURSIVE buildMetadataFromConfig(_, _, _, _)
RECURSIVE buildProperties(_, _, _, _, _)
RECURSIVE createPropertyAssignment(_, _)
RECURSIVE visitStatements(_, _, _, _, _)

----------------------------------------------------------------------------
(* JavaScript values *)

JsNumber(numeral) == [t |-> "number", v |-> numeral]
JsString(s) == [t |-> "string", v |-> s]
JsBoolean(b) == [t |-> "boolean", v |-> b]
JsUndefined == [t |-> "undefined"]
JsMap(entries) == [t |-> "Map", e |-> entries]
JsObject(entries) == [t |-> "Object", e |-> entries]
Entry(key, value) == [k |-> key, v |-> value]

typeof(value) ==
  IF value.t \in {"Map", "Object"} THEN "object" ELSE value.t

MapHas(entries, key) == \E i \in 1..Len(entries) : entries[i].k = key

MapGet(entries, key) ==
  entries[CHOOSE i \in 1..Len(entries) : entries[i].k = key].v

\* Map.prototype.set: an existing key keeps its position, a new one is appended
MapSet(entries, key, value) ==
  IF MapHas(entries, key)
  THEN [i \in 1..Len(entries) |->
          IF entries[i].k = key THEN Entry(key, value) ELSE entries[i]]
  ELSE Append(entries, Entry(key, value))

----------------------------------------------------------------------------
(* Syntax tree nodes *)

NumericLiteral(text) == [kind |-> "NumericLiteral", text |-> text]
StringLiteral(text) == [kind |-> "StringLiteral", text |-> text]
Identifier(text) == [kind |-> "Identifier", text |-> text]
TrueKeyword == [kind |-> "TrueKeyword"]
FalseKeyword == [kind |-> "FalseKeyword"]
ArrayLiteralExpression == [kind |-> "ArrayLiteralExpression"]
UndefinedNode == [kind |-> "undefined"]
ObjectLiteralExpression(properties) ==
  [kind |-> "ObjectLiteralExpression", properties |-> properties]
CallExpression(expression, arguments) ==
  [kind |-> "CallExpression", expression |-> expression, arguments |-> arguments]
PropertyAssignment(name, initializer) ==
  [name |-> name, initializer |-> initializer]
UndefinedProperty == PropertyAssignment("undefined", UndefinedNode)
ImportDeclaration(text) == [kind |-> "ImportDeclaration", text |-> text]
ExportAssignment(expression) ==
  [kind |-> "ExportAssignment", expression |-> expression]
VariableStatement(text) == [kind |-> "VariableStatement", text |-> text]
SourceFile(statements) == [statements |-> statements]

devServerPositionalArgument == <<"tsConfig", "compiler">>

\* Number(text) of a numeric literal's text, as the numeral String() gives back
Number(text) ==
  CASE text = "0x9" -> "9"
    [] text = "1.0" -> "1"
    [] OTHER -> text

Text(node) ==
  IF node.kind \in {"NumericLiteral", "StringLiteral", "Identifier"}
  THEN node.text
  ELSE JsUndefined

fromLiteralToPrimitive(nodeInitializer) ==
  CASE nodeInitializer.kind = "NumericLiteral" ->
         JsNumber(Number(nodeInitializer.text.v))
    [] nodeInitializer.kind = "TrueKeyword" -> JsBoolean("true")
    [] nodeInitializer.kind = "FalseKeyword" -> JsBoolean("false")
    [] OTHER -> Text(nodeInitializer)

\* the call form chosen for plain objects instead of Maps
isDevServerObject(key, value) == key = "devServer" /\ value.t = "Object"

isDevServerMap(key, value) == key = "devServer" /\ value.t = "Map"

createPropertyAssignment(key, value) ==
  IF isDevServerMap(key, value)
  THEN PropertyAssignment("devServer",
         CallExpression("componentDevServer",
           [i \in 1..Len(value.e) |-> StringLiteral(value.e[i].v)]))
  ELSE CASE typeof(value) = "number" ->
              PropertyAssignment(key, NumericLiteral(JsString(value.v)))
         [] typeof(value) = "string" ->
              PropertyAssignment(key, StringLiteral(value))
         [] typeof(value) = "boolean" ->
              PropertyAssignment(key,
                IF value.v = "true" THEN TrueKeyword ELSE FalseKeyword)
         [] typeof(value) = "object" ->
              PropertyAssignment(key,
                ObjectLiteralExpression(
                  [i \in 1..Len(value.e) |->
                     createPropertyAssignment(value.e[i].k, value.e[i].v)]))
         [] OTHER -> UndefinedProperty

\* entries mapped through createPropertyAssignment into an object literal
createObjectLiteral(entries) ==
  ObjectLiteralExpression(
    [i \in 1..Len(entries) |->
       createPropertyAssignment(entries[i].k, entries[i].v)])

----------------------------------------------------------------------------
(* buildMetadataFromConfig: the Map after the call, and whether the call    *)
(* returned (ok) or threw a TypeError part-way, leaving the Map as it was   *)
(* at the throw.                                                            *)

Built(entries, ok) == [map |-> entries, ok |-> ok]

propertyPathOf(parentPrefix, assignmentName) ==
  IF parentPrefix # "" THEN parentPrefix \o "." \o assignmentName
  ELSE assignmentName

\* a devServer written as a call becomes an object literal of its arguments
devServerAsObjectLiteral(assignment) ==
  IF assignment.name = "devServer" /\ assignment.initializer.kind = "CallExpression"
  THEN PropertyAssignment(assignment.name,
         ObjectLiteralExpression(
           [index \in 1..Len(assignment.initializer.arguments) |->
              PropertyAssignment(devServerPositionalArgument[index],
                                 assignment.initializer.arguments[index])]))
  ELSE assignment

\* a child Map that stays empty is left out of its parent
setChildUnlessEmpty(metadataMap, assignmentName, childEntries) ==
  IF childEntries = <<>> THEN metadataMap
  ELSE MapSet(metadataMap, assignmentName, JsMap(childEntries))

setChildMetadataMap(metadataMap, assignmentName, childEntries) ==
  MapSet(metadataMap, assignmentName, JsMap(childEntries))

buildProperty(property, metadataMap, toRemove, parentPrefix) ==
  LET assignmentName == property.name
      propertyPath == propertyPathOf(parentPrefix, assignmentName)
      assignment == devServerAsObjectLiteral(property)
  IN IF propertyPath \in toRemove THEN Built(metadataMap, TRUE)
     ELSE IF MapHas(metadataMap, assignmentName)
     THEN LET existingMetadata == MapGet(metadataMap, assignmentName)
          IN IF existingMetadata.t = "Map"
             THEN LET child == buildMetadataFromConfig(assignment.initializer,
                                 existingMetadata.e, toRemove, propertyPath)
                  IN Built(setChildMetadataMap(metadataMap, assignmentName, child.map),
                           child.ok)
             ELSE Built(metadataMap, TRUE)
     ELSE IF assignment.initializer.kind = "ObjectLiteralExpression"
     THEN LET child == buildMetadataFromConfig(assignment.initializer,
                         <<>>, toRemove, propertyPath)
          IN Built(setChildMetadataMap(metadataMap, assignmentName, child.map),
                   child.ok)
     ELSE Built(MapSet(metadataMap, assignmentName,
                       fromLiteralToPrimitive(assignment.initializer)), TRUE)

buildProperties(properties, i, metadataMap, toRemove, parentPrefix) ==
  IF i > Len(properties) THEN Built(metadataMap, TRUE)
  ELSE LET one == buildProperty(properties[i], metadataMap, toRemove, parentPrefix)
       IN IF one.ok
          THEN buildProperties(properties, i + 1, one.map, toRemove, parentPrefix)
          ELSE one

\* config.properties of anything but an object literal is undefined: the loop throws
buildMetadataFromConfig(config, metadataMap, toRemove, parentPrefix) ==
  IF config.kind # "ObjectLiteralExpression" THEN Built(metadataMap, FALSE)
  ELSE buildProperties(config.properties, 1, metadataMap, toRemove, parentPrefix)

----------------------------------------------------------------------------
(* changePropertiesTransformer *)

UpsertArgs(newConfig, overwrite) ==
  [type |-> "upsert", newConfig |-> newConfig, overwrite |-> overwrite]
DeleteArgs == [type |-> "delete"]

\* the transformer factory: the newConfig, as an object literal, goes into the Map
buildFromNewConfig(args, metadataMap, toRemove) ==
  IF args.type = "upsert"
  THEN buildMetadataFromConfig(createObjectLiteral(args.newConfig.e),
                               metadataMap, toRemove, "")
  ELSE Built(metadataMap, TRUE)

\* the existing config read whatever the mode
readsExistingAlways(args) == TRUE

readsExistingConfig(args) ==
  args.type = "delete" \/ (args.type = "upsert" /\ ~args.overwrite)

Visited(node, entries, ok) == [node |-> node, map |-> entries, ok |-> ok]

\* only the first argument replaced, the call's other arguments kept
updateFirstArgument(callExpression, expression, argumentsArray) ==
  CallExpression(expression,
                 argumentsArray \o (IF Len(callExpression.arguments) > 0
                                    THEN Tail(callExpression.arguments) ELSE <<>>))

\* factory.updateCallExpression(node, expression, typeArguments, argumentsArray)
updateCallExpression(callExpression, expression, argumentsArray) ==
  CallExpression(expression, argumentsArray)

visitExportAssignment(node, args, metadataMap, toRemove) ==
  LET callExpression == node.expression
  IN IF callExpression.kind # "CallExpression"
     THEN Visited(node, metadataMap, FALSE)   \* callExpression.arguments is undefined
     ELSE LET rootConfigNode ==
                IF Len(callExpression.arguments) > 0
                THEN callExpression.arguments[1] ELSE UndefinedNode
              built ==
                IF readsExistingConfig(args)
                THEN buildMetadataFromConfig(rootConfigNode, metadataMap, toRemove, "")
                ELSE Built(metadataMap, TRUE)
          IN IF ~built.ok THEN Visited(node, built.map, FALSE)
             ELSE Visited(
                    ExportAssignment(
                      updateCallExpression(callExpression,
                                           callExpression.expression,
                                           <<createObjectLiteral(built.map)>>)),
                    built.map, TRUE)

Transformed(statements, entries, ok) ==
  [statements |-> statements, map |-> entries, ok |-> ok]

\* nodeVisitor over the statements of the source file
visitStatements(statements, i, args, metadataMap, toRemove) ==
  IF i > Len(statements) THEN Transformed(statements, metadataMap, TRUE)
  ELSE IF statements[i].kind = "ExportAssignment"
  THEN LET one == visitExportAssignment(statements[i], args, metadataMap, toRemove)
       IN IF one.ok
          THEN visitStatements([statements EXCEPT ![i] = one.node], i + 1,
                               args, one.map, toRemove)
          ELSE Transformed(statements, one.map, FALSE)
  ELSE visitStatements(statements, i + 1, args, metadataMap, toRemove)

changePropertiesTransformer(args, file, metadataMap, toRemove) ==
  LET fromNew == buildFromNewConfig(args, metadataMap, toRemove)
  IN IF ~fromNew.ok THEN Transformed(file.statements, fromNew.map, FALSE)
     ELSE visitStatements(file.statements, 1, args, fromNew.map, toRemove)

NoFile == SourceFile(<<>>)
Returned(file) == [status |-> "ok", file |-> file]
Thrown == [status |-> "TypeError", file |-> NoFile]

\* transform(...) and printFile(...): the text returned, or the throw
resultOf(transformed) ==
  IF transformed.ok THEN Returned(SourceFile(transformed.statements)) ELSE Thrown

----------------------------------------------------------------------------
(* The documents, new configurations and removal paths the calls draw from *)

Num(numeral) == NumericLiteral(JsString(numeral))
Str(s) == StringLiteral(JsString(s))
Prop(name, initializer) == PropertyAssignment(name, initializer)
Obj(properties) == ObjectLiteralExpression(properties)

ImportCypress == ImportDeclaration("import { defineConfig } from 'cypress';")

\* import ...; export default defineConfig(<config>);
ConfigFile(config) ==
  SourceFile(<<ImportCypress,
               ExportAssignment(CallExpression("defineConfig", <<config>>))>>)

ExistingConfigs ==
  { Obj(<<Prop("a", Num("1")),
          Prop("b", Obj(<<Prop("x", Num("1")), Prop("y", Num("2"))>>))>>),
    Obj(<<Prop("b", Obj(<<Prop("x", Num("1"))>>))>>),
    Obj(<<Prop("x", Num("0x9")), Prop("b", Obj(<<Prop("x", TrueKeyword)>>))>>),
    Obj(<<Prop("component",
            Obj(<<Prop("devServer",
                       CallExpression("componentDevServer", <<Str("t"), Str("babel")>>)),
                  Prop("video", TrueKeyword)>>))>>),
    Obj(<<Prop("component",
            Obj(<<Prop("devServer",
                       Obj(<<Prop("compiler", Str("babel")),
                             Prop("tsConfig", Str("t"))>>))>>))>>),
    Obj(<<Prop("a", Identifier(JsString("foo")))>>),
    Obj(<<Prop("b", Str("s"))>>),
    Obj(<<>>) }

\* documents without a default-exported call on an object literal
UnrecognizedFiles ==
  { SourceFile(<<ImportCypress>>),
    SourceFile(<<ImportCypress, ExportAssignment(Obj(<<Prop("a", Num("1"))>>))>>),
    SourceFile(<<ImportCypress,
                 ExportAssignment(
                   CallExpression("defineConfig", <<Identifier(JsString("config"))>>))>>),
    SourceFile(<<ImportCypress, ExportAssignment(CallExpression("defineConfig", <<>>))>>) }

\* a config call with a second argument, between two other statements
SurroundedFiles ==
  { SourceFile(<<ImportCypress,
                 ExportAssignment(
                   CallExpression("defineConfig",
                                  <<Obj(<<Prop("a", Num("1"))>>),
                                    Identifier(JsString("extra"))>>)),
                 VariableStatement("const extra = {};")>>) }

Documents ==
  {ConfigFile(config) : config \in ExistingConfigs}
    \cup UnrecognizedFiles \cup SurroundedFiles

NewConfigs ==
  { JsObject(<<Entry("b", JsObject(<<Entry("x", JsNumber("9"))>>))>>),
    JsObject(<<Entry("a", JsNumber("2")), Entry("c", JsString("new"))>>),
    JsObject(<<Entry("b", JsBoolean("false"))>>),
    JsObject(<<Entry("component",
                 JsObject(<<Entry("devServer",
                              JsObject(<<Entry("compiler", JsString("swc"))>>))>>))>>),
    JsObject(<<Entry("component",
                 JsObject(<<Entry("devServer",
                              JsObject(<<Entry("compiler", JsString("swc")),
                                         Entry("tsConfig", JsString("n"))>>))>>))>>),
    JsObject(<<Entry("component",
                 JsObject(<<Entry("devServer",
                              JsObject(<<Entry("tsConfig", JsString("n")),
                                         Entry("compiler", JsString("swc"))>>)),
                            Entry("video", JsBoolean("false"))>>))>>),
    JsObject(<<Entry("devServer", JsObject(<<Entry("tsConfig", JsString("n"))>>))>>),
    JsObject(<<>>) }

RemovalPaths ==
  { "x", "b.x", "b.y", "component.devServer",
    "component.devServer.tsConfig", "component.devServer.compiler" }

\* the most paths one removeProperties call names
MaxPaths == 2

RemovalLists == {paths \in SUBSET RemovalPaths : Cardinality(paths) <= MaxPaths}

----------------------------------------------------------------------------
(* The two entry points *)

\* the call before named removal paths and threw part-way
Prior(toRemove, last) == toRemove # {} /\ last.status = "TypeError"

\* this.configMetadataMap = new Map()
newConfigMetadataMap(previous) == <<>>

\* the removal paths of the call before are left in place
keepPropertiesToRemove(previous) == previous

\* this.propertiesToRemove = []
noPropertiesToRemove(previous) == {}

createSourceFile(existingConfigContent) == existingConfigContent

removeProperties(existingConfigContent, toRemove) ==
  LET file == createSourceFile(existingConfigContent)
      transformed ==
        changePropertiesTransformer(DeleteArgs, file,
          newConfigMetadataMap(configMetadataMap), toRemove)
  IN /\ configMetadataMap' = transformed.map
     /\ propertiesToRemove' = toRemove
     /\ sourceFile' = file
     /\ change' = DeleteArgs
     /\ result' = resultOf(transformed)
     /\ prior' = Prior(propertiesToRemove, result)

addOrUpdateProperties(existingConfigContent, newConfig, overwrite) ==
  LET file == createSourceFile(existingConfigContent)
      toRemove == noPropertiesToRemove(propertiesToRemove)
      transformed ==
        changePropertiesTransformer(UpsertArgs(newConfig, overwrite), file,
          newConfigMetadataMap(configMetadataMap), toRemove)
  IN /\ configMetadataMap' = transformed.map
     /\ propertiesToRemove' = toRemove
     /\ sourceFile' = file
     /\ change' = UpsertArgs(newConfig, overwrite)
     /\ result' = resultOf(transformed)
     /\ prior' = Prior(propertiesToRemove, result)

Init ==
  /\ configMetadataMap = <<>>
  /\ propertiesToRemove = {}
  /\ sourceFile = NoFile
  /\ change = [type |-> "none"]
  /\ result = [status |-> "none", file |-> NoFile]
  /\ prior = FALSE

RemoveProperties ==
  \E existingConfigContent \in Documents, toRemove \in RemovalLists :
    removeProperties(existingConfigContent, toRemove)

AddOrUpdateProperties ==
  \E existingConfigContent \in Documents, newConfig \in NewConfigs,
     overwrite \in BOOLEAN :
    addOrUpdateProperties(existingConfigContent, newConfig, overwrite)

\* the text an upsert returned is handed back with the same arguments
ReapplyAddOrUpdateProperties ==
  /\ change.type = "upsert"
  /\ result.status = "ok"
  /\ addOrUpdateProperties(result.file, change.newConfig, change.overwrite)

Next ==
  \/ RemoveProperties
  \/ AddOrUpdateProperties
  \/ ReapplyAddOrUpdateProperties

Spec == Init /\ [][Next]_vars

----------------------------------------------------------------------------
(* The decoded configuration of a document, as the claims speak of it: a   *)
(* record is a function from its keys to their decoded values, whatever    *)
(* the order of the properties in the source.                              *)

RECURSIVE Decoded(_, _)
RECURSIVE AbsValue(_)
RECURSIVE Supported(_, _)
RECURSIVE MergeRecords(_, _)
RECURSIVE Removed(_, _, _)

Record(fields) == [t |-> "Record", f |-> fields]
IsRecord(value) == value.t = "Record"
Unsupported(node) == [t |-> "Unsupported", kind |-> node.kind]

IsRecognizedExport(statement) ==
  /\ statement.kind = "ExportAssignment"
  /\ statement.expression.kind = "CallExpression"
  /\ Len(statement.expression.arguments) > 0
  /\ statement.expression.arguments[1].kind = "ObjectLiteralExpression"

HasRecognizedExport(file) ==
  \E i \in 1..Len(file.statements) : IsRecognizedExport(file.statements[i])

RootConfig(file) ==
  LET i == CHOOSE j \in 1..Len(file.statements) :
             IsRecognizedExport(file.statements[j])
  IN file.statements[i].expression.arguments[1]

NamesOf(properties) == {properties[i].name : i \in 1..Len(properties)}

InitializerOf(properties, name) ==
  properties[CHOOSE i \in 1..Len(properties) : properties[i].name = name].initializer

FieldIndex(field) ==
  CHOOSE i \in 1..Len(devServerPositionalArgument) :
    devServerPositionalArgument[i] = field

Decoded(key, node) ==
  CASE node.kind = "NumericLiteral" -> JsNumber(Number(node.text.v))
    [] node.kind = "TrueKeyword" -> JsBoolean("true")
    [] node.kind = "FalseKeyword" -> JsBoolean("false")
    [] node.kind = "StringLiteral" -> node.text
    [] node.kind = "ObjectLiteralExpression" ->
         Record([name \in NamesOf(node.properties) |->
                   Decoded(name, InitializerOf(node.properties, name))])
    [] node.kind = "CallExpression" /\ key = "devServer" ->
         Record([field \in {devServerPositionalArgument[i] :
                              i \in 1..Len(node.arguments)} |->
                   Decoded(field, node.arguments[FieldIndex(field)])])
    [] OTHER -> Unsupported(node)

\* every value below the node is of a kind the codec decodes
Supported(key, node) ==
  CASE node.kind \in {"NumericLiteral", "TrueKeyword", "FalseKeyword",
                      "StringLiteral"} -> TRUE
    [] node.kind = "ObjectLiteralExpression" ->
         \A i \in 1..Len(node.properties) :
           Supported(node.properties[i].name, node.properties[i].initializer)
    [] node.kind = "CallExpression" /\ key = "devServer" ->
         \A i \in 1..Len(node.arguments) : Supported("", node.arguments[i])
    [] OTHER -> FALSE

\* a newConfig value, or a value of the metadata Map, as a decoded value
AbsValue(value) ==
  IF typeof(value) = "object"
  THEN Record([key \in {value.e[i].k : i \in 1..Len(value.e)} |->
                 AbsValue(MapGet(value.e, key))])
  ELSE value

\* the recursive merge of the claims: the new side wins at the leaves
MergeRecords(existing, new) ==
  Record([key \in DOMAIN existing.f \cup DOMAIN new.f |->
            IF key \notin DOMAIN new.f THEN existing.f[key]
            ELSE IF key \notin DOMAIN existing.f THEN new.f[key]
            ELSE IF IsRecord(existing.f[key]) /\ IsRecord(new.f[key])
            THEN MergeRecords(existing.f[key], new.f[key])
            ELSE new.f[key]])

\* the existing keys the new config has are replaced wholesale, the others kept
Overwritten(existing, new) ==
  Record([key \in DOMAIN existing.f \cup DOMAIN new.f |->
            IF key \in DOMAIN new.f THEN new.f[key] ELSE existing.f[key]])

\* the record without the subtrees at the dotted paths
Removed(record, paths, parentPrefix) ==
  Record([key \in {k \in DOMAIN record.f :
                     propertyPathOf(parentPrefix, k) \notin paths} |->
            IF IsRecord(record.f[key])
            THEN Removed(record.f[key], paths, propertyPathOf(parentPrefix, key))
            ELSE record.f[key]])

ExistingConfig == Decoded("", RootConfig(sourceFile))
ResultConfig == Decoded("", RootConfig(result.file))

\* the last call ran on a document with a recognized export, all of whose
\* values the codec decodes, and returned a text
Succeeded ==
  /\ change.type # "none"
  /\ result.status = "ok"
  /\ HasRecognizedExport(sourceFile)
  /\ HasRecognizedExport(result.file)

WellFormed == Succeeded /\ Supported("", RootConfig(sourceFile))

IsMerge == change.type = "upsert" /\ ~change.overwrite
IsOverwrite == change.type = "upsert" /\ change.overwrite
IsDelete == change.type = "delete"

\* the fields of every record at the reserved key are the first ones of the
\* fixed field list, so that positional arguments can carry them
RECURSIVE Positional(_)
Positional(record) ==
  \A key \in DOMAIN record.f :
    IsRecord(record.f[key]) =>
      IF key = "devServer"
      THEN \E n \in 0..Len(devServerPositionalArgument) :
             DOMAIN record.f[key].f = {devServerPositionalArgument[i] : i \in 1..n}
      ELSE Positional(record.f[key])

RECURSIVE HasReservedRecord(_)
HasReservedRecord(record) ==
  \E key \in DOMAIN record.f :
    /\ IsRecord(record.f[key])
    /\ (key = "devServer" \/ HasReservedRecord(record.f[key]))

----------------------------------------------------------------------------
MergedConfig == MergeRecords(ExistingConfig, AbsValue(change.newConfig))

\* C1: a merge (overwrite = false) that returns a text returns the recursive
\* merge of the existing configuration and the new one: every key of the new
\* config with the new value at the leaves, every key only the existing
\* config has with its value unchanged, records on both sides merged alike
\* (stated for the merges whose reserved-key records a call can carry).
C1_MergeIsRecursive ==
  (WellFormed /\ IsMerge /\ Positional(MergedConfig)) =>
    ResultConfig = MergedConfig

\* the same, for the merges in which no record sits at the reserved key
MergeIsRecursiveOffReservedKey ==
  (WellFormed /\ IsMerge /\ ~HasReservedRecord(MergedConfig)) =>
    ResultConfig = MergedConfig

----------------------------------------------------------------------------
\* the object literal createPropertyAssignment gives for a plain newConfig:
\* its keys in its order, a record at devServer as a call on the values in
\* the order they were supplied
RECURSIVE EncodedAlone(_, _)
EncodedAlone(key, value) ==
  CASE value.t = "number" -> NumericLiteral(JsString(value.v))
    [] value.t = "string" -> StringLiteral(value)
    [] value.t = "boolean" ->
         IF value.v = "true" THEN TrueKeyword ELSE FalseKeyword
    [] value.t = "Object" /\ key = "devServer" ->
         CallExpression("componentDevServer",
           [i \in 1..Len(value.e) |-> StringLiteral(value.e[i].v)])
    [] value.t = "Object" ->
         ObjectLiteralExpression(
           [i \in 1..Len(value.e) |->
              PropertyAssignment(value.e[i].k,
                                 EncodedAlone(value.e[i].k, value.e[i].v))])

\* the last call returned a text whose export is a call on an object literal
Rewritten ==
  /\ change.type # "none"
  /\ result.status = "ok"
  /\ HasRecognizedExport(result.file)

\* C2 as claimed: overwrite = true replaces the existing keys the new config
\* also has and keeps every existing key the new config does not mention.
C2_OverwriteKeepsUnmentioned ==
  (WellFormed /\ IsOverwrite) =>
    ResultConfig = Overwritten(ExistingConfig, AbsValue(change.newConfig))

\* C2 as amended: overwrite = true never reads the existing configuration;
\* the result is the encoding of the new config alone, and every existing
\* key is dropped whether or not the new config mentions it.
C2_OverwriteDropsExisting ==
  (Rewritten /\ IsOverwrite) =>
    RootConfig(result.file) = EncodedAlone("", change.newConfig)

\* an overwrite has dropped an existing key the new config does not mention
C2_Witness ==
  /\ WellFormed /\ IsOverwrite
  /\ \E key \in DOMAIN ExistingConfig.f :
       /\ key \notin DOMAIN AbsValue(change.newConfig).f
       /\ key \notin DOMAIN ResultConfig.f
  /\ DOMAIN AbsValue(change.newConfig).f # {}

----------------------------------------------------------------------------
RemovedConfig == Removed(ExistingConfig, propertiesToRemove, "")

\* C3: removeProperties only removes: the decoded result is the decoded
\* existing configuration without the subtrees at the named dotted paths;
\* every other property keeps its value, none is added (stated for the
\* removals that leave reserved-key records a call can carry).
C3_RemoveOnlyRemoves ==
  (WellFormed /\ IsDelete /\ Positional(RemovedConfig)) =>
    ResultConfig = RemovedConfig

\* the same, for the removals that leave no record at the reserved key
RemoveOnlyRemovesOffReservedKey ==
  (WellFormed /\ IsDelete /\ ~HasReservedRecord(RemovedConfig)) =>
    ResultConfig = RemovedConfig

----------------------------------------------------------------------------
(* The properties of a configuration with their dotted paths *)

\* the properties below a value: those of an object literal, and the fields
\* the positional arguments of a call at the reserved key stand for
ChildrenOf(key, node) ==
  CASE node.kind = "ObjectLiteralExpression" -> node.properties
    [] node.kind = "CallExpression" /\ key = "devServer" ->
         [i \in 1..Len(node.arguments) |->
            PropertyAssignment(devServerPositionalArgument[i], node.arguments[i])]
    [] OTHER -> <<>>

IsRecordNode(key, node) ==
  \/ node.kind = "ObjectLiteralExpression"
  \/ (node.kind = "CallExpression" /\ key = "devServer")

IsSupportedNode(key, node) ==
  \/ node.kind \in {"NumericLiteral", "TrueKeyword", "FalseKeyword", "StringLiteral"}
  \/ IsRecordNode(key, node)

\* every property below the node: its dotted path, the paths of the
\* properties that enclose it (itself included), its key and its value
RECURSIVE PropertiesBelow(_, _, _, _)
PropertiesBelow(key, node, parentPrefix, enclosing) ==
  LET children == ChildrenOf(key, node)
  IN UNION { LET name == children[i].name
                 path == propertyPathOf(parentPrefix, name)
                 within == enclosing \cup {path}
             IN {[path |-> path, within |-> within, key |-> name,
                  node |-> children[i].initializer]}
                \cup PropertiesBelow(name, children[i].initializer, path, within)
             : i \in 1..Len(children) }

ExistingProperties == PropertiesBelow("", RootConfig(sourceFile), "", {})
ResultProperties == PropertiesBelow("", RootConfig(result.file), "", {})

ChildPaths(property) ==
  {propertyPathOf(property.path, ChildrenOf(property.key, property.node)[i].name) :
     i \in 1..Len(ChildrenOf(property.key, property.node))}

\* removeProperties returned a text for a document with a recognized export
Deleted == Rewritten /\ IsDelete /\ HasRecognizedExport(sourceFile)

----------------------------------------------------------------------------
\* C4: removeProperties never prunes a parent that becomes empty: a nested
\* record that is not itself removed, and all of whose children are named in
\* the paths, stays in the result at its path, as a record without children.
C4_EmptyParentStays ==
  Deleted =>
    \A parent \in ExistingProperties :
      ( /\ IsRecordNode(parent.key, parent.node)
        /\ parent.within \cap propertiesToRemove = {}
        /\ ChildPaths(parent) \subseteq propertiesToRemove ) =>
        \E kept \in ResultProperties :
          /\ kept.path = parent.path
          /\ IsRecordNode(kept.key, kept.node)
          /\ ChildrenOf(kept.key, kept.node) = <<>>

\* a parent with children, all of them removed, is in the result, empty
C4_Witness ==
  /\ Deleted
  /\ \E parent \in ExistingProperties :
       /\ IsRecordNode(parent.key, parent.node)
       /\ ChildPaths(parent) # {}
       /\ ChildPaths(parent) \subseteq propertiesToRemove
       /\ \E kept \in ResultProperties :
            /\ kept.path = parent.path
            /\ kept.node = ObjectLiteralExpression(<<>>)

----------------------------------------------------------------------------
\* C5: on a document without a default-exported call whose first argument
\* is an object literal, both entry points fail and return no text.
C5_NoRecognizedExportFails ==
  (change.type # "none" /\ ~HasRecognizedExport(sourceFile)) =>
    result.status # "ok"

----------------------------------------------------------------------------
\* an existing property of a kind the codec does not decode, that the last
\* call came to decode: no removal path names it or a property around it,
\* and the new config of a merge has none of the existing top-level keys
MetUnsupported ==
  /\ HasRecognizedExport(sourceFile)
  /\ \/ IsDelete
     \/ (IsMerge /\ DOMAIN AbsValue(change.newConfig).f
                      \cap DOMAIN ExistingConfig.f = {})
  /\ \E property \in ExistingProperties :
       /\ ~IsSupportedNode(property.key, property.node)
       /\ property.within \cap propertiesToRemove = {}

\* C6: decoding an existing value that is not a number, boolean, string or
\* object literal (or a call at devServer) aborts the merge or the removal:
\* the value is never coerced to a string or dropped.
C6_UnsupportedLiteralAborts ==
  MetUnsupported => result.status # "ok"

----------------------------------------------------------------------------
(* The entries of the metadata Map with their dotted paths *)

RECURSIVE EntriesBelow(_, _)
EntriesBelow(entries, parentPrefix) ==
  UNION { LET path == propertyPathOf(parentPrefix, entries[i].k)
          IN {[path |-> path, key |-> entries[i].k, value |-> entries[i].v]}
             \cup (IF typeof(entries[i].v) = "object"
                   THEN EntriesBelow(entries[i].v.e, path) ELSE {})
          : i \in 1..Len(entries) }

MetadataEntries == EntriesBelow(configMetadataMap, "")

ReservedRecords ==
  {entry \in MetadataEntries : entry.key = "devServer" /\ entry.value.t = "Map"}

\* the values of the fields that are present, in the fixed field order
RECURSIVE ArgumentsInFieldOrder(_, _)
ArgumentsInFieldOrder(entries, i) ==
  IF i > Len(devServerPositionalArgument) THEN <<>>
  ELSE (IF MapHas(entries, devServerPositionalArgument[i])
        THEN <<StringLiteral(MapGet(entries, devServerPositionalArgument[i]))>>
        ELSE <<>>) \o ArgumentsInFieldOrder(entries, i + 1)

IsDevServerCall(node) ==
  node.kind = "CallExpression" /\ node.expression = "componentDevServer"

----------------------------------------------------------------------------
\* C7: a record at the reserved key devServer is emitted as a call
\* componentDevServer(...) whose arguments are the fields that are present,
\* in the fixed field order (tsConfig, then compiler), whatever the order in
\* which the fields were supplied or merged in.
C7_ArgumentsInFixedOrder ==
  Rewritten =>
    \A record \in ReservedRecords :
      \E emitted \in ResultProperties :
        /\ emitted.path = record.path
        /\ IsDevServerCall(emitted.node)
        /\ emitted.node.arguments = ArgumentsInFieldOrder(record.value.e, 1)

----------------------------------------------------------------------------
\* an existing devServer call that the last call left alone: no removal path
\* names it, a property around it or one of its fields, and the new config
\* of a merge has no top-level key on its path
Untouched(property) ==
  /\ property.key = "devServer"
  /\ property.node.kind = "CallExpression"
  /\ \/ /\ IsDelete
        /\ (property.within \cup ChildPaths(property)) \cap propertiesToRemove = {}
     \/ /\ IsMerge
        /\ property.within \cap DOMAIN AbsValue(change.newConfig).f = {}

\* the first half of C8: an untouched call (a1, a2) is decoded into
\* {tsConfig: a1, compiler: a2} and emitted again with the same arguments
UntouchedCallIsReemitted ==
  (Rewritten /\ HasRecognizedExport(sourceFile)) =>
    \A property \in {p \in ExistingProperties : Untouched(p)} :
      /\ \E record \in ReservedRecords :
           /\ record.path = property.path
           /\ AbsValue(record.value) = Decoded("devServer", property.node)
      /\ \E emitted \in ResultProperties :
           /\ emitted.path = property.path
           /\ emitted.node = property.node

\* the second half of C8: decoding the emitted call gives back the record
\* that was encoded (stated for the records a call can carry: tsConfig
\* alone, or tsConfig and compiler)
EmittedCallDecodesBack ==
  Rewritten =>
    \A record \in ReservedRecords :
      Positional(Record([devServer |-> AbsValue(record.value)])) =>
        \E emitted \in ResultProperties :
          /\ emitted.path = record.path
          /\ Decoded("devServer", emitted.node) = AbsValue(record.value)

\* C8: reserved-key round trip: an existing devServer call (a1, a2) decodes
\* to {tsConfig: a1, compiler: a2} and a call that leaves it alone emits the
\* same arguments again; and decoding an emitted call gives back the record
\* that was encoded, also when only some of the fields are present.
C8_ReservedKeyRoundTrip ==
  UntouchedCallIsReemitted /\ EmittedCallDecodesBack

----------------------------------------------------------------------------
\* C9: the call form is chosen by the key, not by the shape or the origin of
\* the value: every record that ends up at a key devServer is emitted as a
\* call componentDevServer(...), never as an object literal, and a record at
\* any other key is emitted as an object literal.
C9_CallFormByKey ==
  Rewritten =>
    /\ \A entry \in {e \in MetadataEntries : e.value.t = "Map"} :
         \E emitted \in ResultProperties :
           /\ emitted.path = entry.path
           /\ IF entry.key = "devServer"
              THEN IsDevServerCall(emitted.node)
              ELSE emitted.node.kind = "ObjectLiteralExpression"
    /\ \A emitted \in ResultProperties :
         /\ emitted.key = "devServer" =>
              emitted.node.kind # "ObjectLiteralExpression"
         /\ emitted.key # "devServer" => emitted.node.kind # "CallExpression"

\* a devServer written as an object literal in the source has come out as a
\* call, below a record at another key that has come out as an object literal
C9_Witness ==
  /\ Rewritten /\ HasRecognizedExport(sourceFile)
  /\ \E property \in ExistingProperties :
       /\ property.key = "devServer"
       /\ property.node.kind = "ObjectLiteralExpression"
       /\ \E emitted \in ResultProperties :
            /\ emitted.path = property.path
            /\ IsDevServerCall(emitted.node)
            /\ Len(emitted.node.arguments) > 0
       /\ \E around \in ResultProperties :
            /\ around.path \in property.within
            /\ around.node.kind = "ObjectLiteralExpression"

\* a devServer supplied as a plain object in newConfig has come out as a call
C9_WitnessNewConfig ==
  /\ Rewritten /\ IsOverwrite
  /\ \E entry \in EntriesBelow(change.newConfig.e, "") :
       /\ entry.key = "devServer"
       /\ entry.value.t = "Object"
       /\ \E emitted \in ResultProperties :
            /\ emitted.path = entry.path
            /\ IsDevServerCall(emitted.node)

----------------------------------------------------------------------------
\* what the arguments of the last call give when the static fields are fresh
FreshResult ==
  resultOf(changePropertiesTransformer(change, sourceFile, <<>>,
             IF IsDelete THEN propertiesToRemove ELSE {}))

\* C10: every call is independent of the calls before it: its result is what
\* its own arguments give, whatever entries and removal paths an earlier
\* call, returned or thrown, has left in the static fields.
C10_CallsAreIndependent ==
  change.type # "none" => result = FreshResult

\* a merge has kept a property that a removal path could name, right after a
\* removeProperties call that named paths and threw part-way
C10_Witness ==
  /\ prior
  /\ WellFormed /\ IsMerge
  /\ \E kept \in ResultProperties : kept.path \in RemovalPaths

----------------------------------------------------------------------------
\* C11: both operations change only the argument of the recognized export
\* call: every other statement of the returned document is the statement of
\* the input at the same place, the export call keeps its callee, and the
\* call has the object literal built from the metadata as its sole argument.
C11_OnlyTheCallArgumentChanges ==
  (change.type # "none" /\ result.status = "ok"
     /\ HasRecognizedExport(sourceFile)) =>
    /\ Len(result.file.statements) = Len(sourceFile.statements)
    /\ \A i \in 1..Len(sourceFile.statements) :
         LET before == sourceFile.statements[i]
             after == result.file.statements[i]
         IN IF before.kind = "ExportAssignment"
            THEN /\ after.kind = "ExportAssignment"
                 /\ after.expression.kind = "CallExpression"
                 /\ after.expression.expression = before.expression.expression
                 /\ Len(after.expression.arguments) = 1
                 /\ after.expression.arguments[1].kind = "ObjectLiteralExpression"
                 /\ after.expression.arguments[1] =
                      createObjectLiteral(configMetadataMap)
            ELSE after = before

\* a call with two arguments, between an import and a declaration, has come
\* back with one argument that differs from its first, the rest as it was
C11_Witness ==
  /\ change.type # "none" /\ result.status = "ok"
  /\ HasRecognizedExport(sourceFile)
  /\ Len(sourceFile.statements) = 3
  /\ sourceFile.statements[2].kind = "ExportAssignment"
  /\ Len(sourceFile.statements[2].expression.arguments) = 2
  /\ result.file.statements[1] = sourceFile.statements[1]
  /\ result.file.statements[3] = sourceFile.statements[3]
  /\ result.file.statements[2].expression.arguments # <<>>
  /\ result.file.statements[2].expression.arguments[1] #
       sourceFile.statements[2].expression.arguments[1]

----------------------------------------------------------------------------
\* a step that hands the text an overwrite returned to the same overwrite
SecondOverwrite ==
  /\ Rewritten /\ IsOverwrite
  /\ change' = change
  /\ sourceFile' = result.file

\* C12: overwrite is idempotent: overwriting the text an overwrite returned
\* with the same new config succeeds and returns a text whose decoded
\* configuration equals the decoded configuration of the first result.
C12_OverwriteIsIdempotent ==
  [][SecondOverwrite =>
       /\ result'.status = "ok"
       /\ HasRecognizedExport(result'.file)
       /\ Decoded("", RootConfig(result'.file)) = ResultConfig]_vars

\* the second overwrite has run on the text of the first and returned it
\* again, a devServer record of the new config among its properties
C12_Witness ==
  /\ Rewritten /\ IsOverwrite
  /\ sourceFile = result.file
  /\ sourceFile \notin Documents
  /\ \E emitted \in ResultProperties : IsDevServerCall(emitted.node)

----------------------------------------------------------------------------
RECURSIVE MixedShapes(_, _)
\* some key is held by both sides at the same level with values that are
\* not both records
MixedShapes(existing, new) ==
  \E key \in DOMAIN existing.f \cap DOMAIN new.f :
    IF IsRecord(existing.f[key]) /\ IsRecord(new.f[key])
    THEN MixedShapes(existing.f[key], new.f[key])
    ELSE TRUE

RECURSIVE RecordOverPrimitive(_, _)
\* some key holds a record on the new side and a primitive on the existing
RecordOverPrimitive(existing, new) ==
  \E key \in DOMAIN existing.f \cap DOMAIN new.f :
    IF IsRecord(new.f[key])
    THEN IF IsRecord(existing.f[key])
         THEN RecordOverPrimitive(existing.f[key], new.f[key])
         ELSE TRUE
    ELSE FALSE

\* a merge of a new config into a document with a recognized export whose
\* values the codec decodes, no record at the reserved key involved
MergeOffReservedKey ==
  /\ IsMerge
  /\ HasRecognizedExport(sourceFile)
  /\ Supported("", RootConfig(sourceFile))
  /\ ~HasReservedRecord(MergedConfig)

\* C13: in a merge, whenever the new config and the existing document hold
\* the same key at the same level and the two values are not both records,
\* the operation succeeds and the new value replaces the existing one
\* wholesale, for a new primitive over an existing record and for a new
\* record over an existing primitive alike.
C13_MixedShapesReplaceWholesale ==
  (MergeOffReservedKey
     /\ MixedShapes(ExistingConfig, AbsValue(change.newConfig))) =>
    /\ result.status = "ok"
    /\ HasRecognizedExport(result.file)
    /\ ResultConfig = MergedConfig

\* the part of C13 the code keeps: the new value replaces the existing one
\* wholesale unless a new record meets an existing primitive
PrimitiveReplacesWholesale ==
  (MergeOffReservedKey
     /\ MixedShapes(ExistingConfig, AbsValue(change.newConfig))
     /\ ~RecordOverPrimitive(ExistingConfig, AbsValue(change.newConfig))) =>
    /\ result.status = "ok"
    /\ HasRecognizedExport(result.file)
    /\ ResultConfig = MergedConfig

\* a new record over an existing primitive ends the merge in a TypeError
RecordOverPrimitiveThrows ==
  (MergeOffReservedKey
     /\ RecordOverPrimitive(ExistingConfig, AbsValue(change.newConfig))) =>
    result.status = "TypeError"

====
